---- MODULE Spec2Model ----
(***************************************************************************)
(* Model of libreco/algorithms/ALS.py: the three ALS model classes         *)
(* (ALS_rating, ALS_ranking, ALS_ranking_9090), their fit loop, predict    *)
(* and recommend_user.                                                     *)
(*                                                                         *)
(* Numbers.  Floats are modelled as fixed-point integers.  A latent value  *)
(* v is stored as v * Scale.  A product of two latent values (a dot        *)
(* product, a Gram entry, a prediction) is stored as v * One, where        *)
(* One = Scale * Scale.  reg is stored as reg * Scale.  Labels and the     *)
(* clip limits are whole numbers.  Every division rounds down, which       *)
(* stands for the rounding of a floating-point solve.                      *)
(***************************************************************************)
EXTENDS Integers, Sequences, FiniteSets

VARIABLES
    cls,                \* which class the object is an instance of
    n_epochs,           \* self.n_epochs
    reg,                \* self.reg
    task,               \* self.task
    seed,               \* self.seed
    dataset,            \* the dataset handed to fit (self.dataset once fitted)
    default_prediction, \* self.default_prediction
    pu,                 \* self.pu (self.X in ALS_ranking_9090)
    qi,                 \* self.qi (self.Y in ALS_ranking_9090)
    YtY,                \* local YtY of ALS_ranking_9090.fit
    XtX,                \* local XtX of ALS_ranking_9090.fit
    rng,                \* the process-wide numpy random state
    pc,                 \* position of the object: "init", inside fit, "fitted"
    epoch,              \* loop variable of fit
    idx,                \* position inside the running sweep
    result,             \* what a predict / recommend_user call has just returned
    fits,               \* number of completed fit calls
    firstFit,           \* the factor matrices the first completed fit produced
    initial,            \* the factor matrices as the running fit initialised them
    user_sweeps,        \* user sweeps the running (or last) fit has completed
    item_sweeps,        \* item sweeps the running (or last) fit has completed
    sweepStart,         \* the factor matrices when the running sweep began
    done,               \* the entities the running sweep has updated
    probe               \* the first full deterministic ranking served since fit, if any,
                        \* and whether it was asked for again after another query

vars == <<cls, n_epochs, reg, task, seed, dataset, default_prediction, pu, qi,
          YtY, XtX, rng, pc, epoch, idx, result, fits, firstFit,
          initial, user_sweeps, item_sweeps, sweepStart, done, probe>>

(***************************************************************************)
(* Bounds of the model.                                                    *)
(***************************************************************************)
Scale == 10
NUsers == 2
NItems == 3
MaxEpochs == 2
MaxFits == 2

One == Scale * Scale

(***************************************************************************)
(* Program constants.                                                      *)
(***************************************************************************)
n_factors == 2
ClipLo == 1
ClipHi == 5
Threshold == 4
ConfScale == 10

Classes == {"ALS_rating", "ALS_ranking", "ALS_ranking_9090"}
Tasks == {"rating", "ranking", "regression"}
Seeds == {42, 7}
\* reg = 0.1 or 1.0 for the explicit class, reg = 1.0 for the two implicit ones
RegChoices(c) == IF c = "ALS_rating" THEN {Scale \div 10, Scale} ELSE {Scale}
\* the constructor arguments task and seed the model is run with
Configs == [task : Tasks, seed : Seeds]

\* what a variable holds before fit has set it; each has the shape of the values
\* it takes later (a number, a matrix, a pair of factor matrices)
NoValue == 0 - 1
NoMatrix == <<>>
NoFactors == [pu |-> <<>>, qi |-> <<>>]

(***************************************************************************)
(* Small helpers on sequences and 2-vectors / 2x2 matrices.                *)
(***************************************************************************)
RECURSIVE SumSeq(_)
SumSeq(s) == IF s = <<>> THEN 0 ELSE Head(s) + SumSeq(Tail(s))

Range(s) == {s[k] : k \in 1..Len(s)}

Dot(a, b) == SumSeq([f \in 1..n_factors |-> a[f] * b[f]])

\* sum over the rows of w[k] * rows[k][a] * rows[k][b]: rows.T . diag(w) . rows
WGram(rows, w) ==
    [a \in 1..n_factors |->
        [b \in 1..n_factors |->
            SumSeq([k \in 1..Len(rows) |-> w[k] * rows[k][a] * rows[k][b]])]]

Gram(rows) == WGram(rows, [k \in 1..Len(rows) |-> 1])

\* sum over the rows of w[k] * rows[k]
WSum(rows, w) ==
    [a \in 1..n_factors |-> SumSeq([k \in 1..Len(rows) |-> w[k] * rows[k][a]])]

MatAdd(A, B) == [a \in 1..n_factors |-> [b \in 1..n_factors |-> A[a][b] + B[a][b]]]

\* the regularisation term left out
RegEyeZero(r) == [a \in 1..n_factors |-> [b \in 1..n_factors |-> 0]]

\* reg * np.eye(n_factors), at the scale of a Gram entry
RegEye(r) == [a \in 1..n_factors |-> [b \in 1..n_factors |-> IF a = b THEN r * Scale ELSE 0]]

Det(A) == A[1][1] * A[2][2] - A[1][2] * A[2][1]

\* floor(m * m * n / d) for d > 0, without the intermediate m * m * n
MulDiv2(m, n, d) == m * ((m * n) \div d) + (m * ((m * n) % d)) \div d

\* np.linalg.solve(A, b): A at scale One, b at scale Scale, x at scale Scale
Solve(A, b) ==
    <<MulDiv2(Scale, A[2][2] * b[1] - A[1][2] * b[2], Det(A)),
      MulDiv2(Scale, A[1][1] * b[2] - A[2][1] * b[1], Det(A))>>

\* np.linalg.inv(A), entries at scale One
Inv(A) ==
    <<<<MulDiv2(One, A[2][2], Det(A)), MulDiv2(One, 0 - A[1][2], Det(A))>>,
      <<MulDiv2(One, 0 - A[2][1], Det(A)), MulDiv2(One, A[1][1], Det(A))>>>>

\* np.linalg.inv(A).dot(b)
InvDot(A, b) ==
    [a \in 1..n_factors |-> (Inv(A)[a][1] * b[1] + Inv(A)[a][2] * b[2]) \div One]

(***************************************************************************)
(* The dataset collaborator.  Users and items are 0-based ids; row u of a  *)
(* factor matrix is element u + 1 of the sequence that models it.          *)
(***************************************************************************)
\* interaction records <<user, item, label>>
RatingData ==
    { << <<0, 0, 5>>, <<1, 0, 5>>, <<1, 1, 5>>, <<1, 2, 5>> >>,
      << <<0, 0, 5>>, <<1, 0, 4>>, <<1, 1, 5>>, <<1, 2, 4>> >>,
      << <<1, 2, 3>>, <<1, 0, 5>> >> }

ImplicitData ==
    { << <<0, 0, 1>>, <<1, 0, 1>>, <<1, 1, 1>> >>,
      << <<1, 2, 1>>, <<0, 0, 1>>, <<1, 0, 1>> >> }

RECURSIVE Distinct(_)
\* the elements of s, each kept at its first occurrence
Distinct(s) ==
    IF s = <<>> THEN <<>>
    ELSE LET r == Distinct(SubSeq(s, 1, Len(s) - 1))
             x == s[Len(s)]
         IN IF x \in Range(r) THEN r ELSE Append(r, x)

BuildDataset(recs) ==
    [ n_users |-> NUsers,
      n_items |-> NItems,
      global_mean |-> (SumSeq([k \in 1..Len(recs) |-> recs[k][3]]) * One) \div Len(recs),
      train_user_implicit |-> [k \in 1..Len(recs) |-> recs[k][1]],
      train_item_implicit |-> [k \in 1..Len(recs) |-> recs[k][2]],
      train_label_implicit |-> [k \in 1..Len(recs) |-> recs[k][3]],
      \* dict of dicts, kept as key order plus association lists <<key, label>>
      train_user |->
          [u \in Range([k \in 1..Len(recs) |-> recs[k][1]]) |->
              LET mine == SelectSeq(recs, LAMBDA r : r[1] = u)
              IN [k \in 1..Len(mine) |-> <<mine[k][2], mine[k][3]>>]],
      train_item |->
          [i \in Range([k \in 1..Len(recs) |-> recs[k][2]]) |->
              LET mine == SelectSeq(recs, LAMBDA r : r[2] = i)
              IN [k \in 1..Len(mine) |-> <<mine[k][1], mine[k][3]>>]],
      user_order |-> Distinct([k \in 1..Len(recs) |-> recs[k][1]]),
      item_order |-> Distinct([k \in 1..Len(recs) |-> recs[k][2]]) ]

\* list(d.keys()) and list(d.values()) of one neighbour dict
Keys(d) == [k \in 1..Len(d) |-> d[k][1]]
Values(d) == [k \in 1..Len(d) |-> d[k][2]]

\* M[indices]: the rows of a factor matrix at a list of 0-based indices
Rows(M, indices) == [k \in 1..Len(indices) |-> M[indices[k] + 1]]

(***************************************************************************)
(* The random generator and truncated_normal.                              *)
(***************************************************************************)
RngStep(s) == (7 * s + 3) % 31

\* a seed call that leaves the generator where it is
RngKeep(s) == rng

\* np.random.seed(seed)
RngSeed(s) == s % 31

RECURSIVE RngAfter(_, _)
RngAfter(s, n) == IF n = 0 THEN s ELSE RngAfter(RngStep(s), n - 1)

\* the n-th draw from state s: one of -0.1, 0, 0.1
Draw(s, n) == ((RngAfter(s, n) % 3) - 1) * (Scale \div 10)

\* truncated_normal(shape=(rows, n_factors), mean=0.0, scale=0.05) from state s
truncated_normal(s, rows) ==
    [r \in 1..rows |-> [f \in 1..n_factors |-> Draw(s, (r - 1) * n_factors + f)]]

(***************************************************************************)
(* The per-entity updates of the three fit loops.                          *)
(***************************************************************************)
\* yy_reg / xx_reg of ALS_rating.fit
RatingMatrix(opposite, neighbours) ==
    MatAdd(Gram(Rows(opposite, Keys(neighbours))), RegEye(reg))

\* ALS_rating.fit, body of the loop over users (and, mirrored, over items)
RatingUpdate(opposite, neighbours) ==
    LET rows == Rows(opposite, Keys(neighbours))
        yy_reg == RatingMatrix(opposite, neighbours)
        r_y == WSum(rows, Values(neighbours))
    IN Solve(yy_reg, r_y)

\* ALS_ranking.fit: neighbours come from the flattened arrays, the system is
\* solved with an explicit inverse
Where(arr, x) == SelectSeq([k \in 1..Len(arr) |-> k], LAMBDA k : arr[k] = x)

\* yy_reg / xx_reg of ALS_ranking.fit
RankingMatrix(opposite, keyArr, otherArr, x) ==
    LET at == Where(keyArr, x)
        items == [k \in 1..Len(at) |-> otherArr[at[k]]]
    IN MatAdd(Gram(Rows(opposite, items)), RegEye(reg))

RankingUpdate(opposite, keyArr, otherArr, x) ==
    LET at == Where(keyArr, x)
        items == [k \in 1..Len(at) |-> otherArr[at[k]]]
        labels == [k \in 1..Len(at) |-> dataset.train_label_implicit[at[k]]]
        rows == Rows(opposite, items)
        yy_reg == RankingMatrix(opposite, keyArr, otherArr, x)
        r_y == WSum(rows, labels)
    IN InvDot(yy_reg, r_y)

\* ycy_reg / xcx_reg of ALS_ranking_9090.fit
WeightedMatrix(opposite, gram, neighbours) ==
    LET Cu_values == [k \in 1..Len(neighbours) |-> Values(neighbours)[k] * ConfScale]
        rows == Rows(opposite, Keys(neighbours))
    IN MatAdd(MatAdd(gram, WGram(rows, Cu_values)), RegEye(reg))

\* the update of the implicit-feedback paper: the correction term weighs the
\* neighbours with confidence - 1
WeightedUpdateCanonical(opposite, gram, neighbours) ==
    LET Cu_indices == Keys(neighbours)
        Cu_values == [k \in 1..Len(neighbours) |-> Values(neighbours)[k] * ConfScale]
        rows == Rows(opposite, Cu_indices)
        ycy_reg == MatAdd(MatAdd(gram, WGram(rows, [k \in 1..Len(rows) |-> Cu_values[k] - 1])),
                          RegEye(reg))
        ycp == WSum(rows, Cu_values)
    IN Solve(ycy_reg, ycp)

\* ALS_ranking_9090.fit: Cu is diagonal with 10 * label at the neighbours, pu is
\* the indicator column of the neighbours
WeightedUpdate(opposite, gram, neighbours) ==
    LET Cu_indices == Keys(neighbours)
        Cu_values == [k \in 1..Len(neighbours) |-> Values(neighbours)[k] * ConfScale]
        rows == Rows(opposite, Cu_indices)
        ycy_reg == WeightedMatrix(opposite, gram, neighbours)
        ycp == WSum(rows, Cu_values)
    IN Solve(ycy_reg, ycp)

\* a user update with a carried dependency: it adds the current row of the
\* next user to the solution
UserUpdateValueCarried(u) ==
    LET x == CASE cls = "ALS_rating" -> RatingUpdate(qi, dataset.train_user[u])
               [] cls = "ALS_ranking" ->
                     RankingUpdate(qi, dataset.train_user_implicit,
                                   dataset.train_item_implicit, u)
               [] cls = "ALS_ranking_9090" -> WeightedUpdate(qi, YtY, dataset.train_user[u])
        other == pu[((u + 1) % dataset.n_users) + 1]
    IN [f \in 1..n_factors |-> x[f] + other[f]]

UserUpdateValue(u) ==
    CASE cls = "ALS_rating" -> RatingUpdate(qi, dataset.train_user[u])
      [] cls = "ALS_ranking" ->
            RankingUpdate(qi, dataset.train_user_implicit, dataset.train_item_implicit, u)
      [] cls = "ALS_ranking_9090" -> WeightedUpdate(qi, YtY, dataset.train_user[u])

\* an item update that reads the user matrix as it was when training began
ItemUpdateValueStale(i) ==
    CASE cls = "ALS_rating" -> RatingUpdate(initial.pu, dataset.train_item[i])
      [] cls = "ALS_ranking" ->
            RankingUpdate(initial.pu, dataset.train_item_implicit, dataset.train_user_implicit, i)
      [] cls = "ALS_ranking_9090" -> WeightedUpdate(initial.pu, XtX, dataset.train_item[i])

ItemUpdateValue(i) ==
    CASE cls = "ALS_rating" -> RatingUpdate(pu, dataset.train_item[i])
      [] cls = "ALS_ranking" ->
            RankingUpdate(pu, dataset.train_item_implicit, dataset.train_user_implicit, i)
      [] cls = "ALS_ranking_9090" -> WeightedUpdate(pu, XtX, dataset.train_item[i])

\* the matrix the update of user u / item i hands to the solver
UserMatrix(u) ==
    CASE cls = "ALS_rating" -> RatingMatrix(qi, dataset.train_user[u])
      [] cls = "ALS_ranking" ->
            RankingMatrix(qi, dataset.train_user_implicit, dataset.train_item_implicit, u)
      [] cls = "ALS_ranking_9090" -> WeightedMatrix(qi, YtY, dataset.train_user[u])

ItemMatrix(i) ==
    CASE cls = "ALS_rating" -> RatingMatrix(pu, dataset.train_item[i])
      [] cls = "ALS_ranking" ->
            RankingMatrix(pu, dataset.train_item_implicit, dataset.train_user_implicit, i)
      [] cls = "ALS_ranking_9090" -> WeightedMatrix(pu, XtX, dataset.train_item[i])

NoResult == [op |-> "none"]

(***************************************************************************)
(* State after construction: __init__ only stores its arguments.           *)
(***************************************************************************)
Init ==
    /\ cls \in Classes
    /\ n_epochs \in 0..MaxEpochs
    /\ reg \in RegChoices(cls)
    /\ \E c \in Configs : task = c.task /\ seed = c.seed
    /\ dataset \in {BuildDataset(r) :
                      r \in IF cls = "ALS_rating" THEN RatingData ELSE ImplicitData}
    /\ default_prediction = NoValue
    /\ pu = <<>>
    /\ qi = <<>>
    /\ YtY = NoMatrix
    /\ XtX = NoMatrix
    /\ rng = 0
    /\ pc = "init"
    /\ epoch = 0
    /\ idx = 0
    /\ result = NoResult
    /\ fits = 0
    /\ firstFit = NoFactors
    /\ initial = NoFactors
    /\ user_sweeps = 0
    /\ item_sweeps = 0
    /\ sweepStart = NoFactors
    /\ done = {}
    /\ probe = <<>>

(***************************************************************************)
(* fit, one action per step of its loops.                                  *)
(***************************************************************************)
\* fit, up to the epoch loop: seed, default prediction, fresh factors
FitBegin ==
    /\ pc \in {"init", "fitted"}
    /\ result = NoResult
    /\ fits < MaxFits
    /\ default_prediction' = dataset.global_mean
    /\ pu' = truncated_normal(RngSeed(seed), dataset.n_users)
    /\ qi' = truncated_normal(RngAfter(RngSeed(seed), dataset.n_users * n_factors),
                              dataset.n_items)
    /\ rng' = RngAfter(RngSeed(seed), (dataset.n_users + dataset.n_items) * n_factors)
    /\ epoch' = 1
    /\ idx' = 0
    /\ pc' = "epoch"
    /\ result' = NoResult
    /\ YtY' = NoMatrix
    /\ XtX' = NoMatrix
    /\ initial' = [pu |-> pu', qi |-> qi']
    /\ user_sweeps' = 0
    /\ item_sweeps' = 0
    /\ sweepStart' = NoFactors
    /\ done' = {}
    /\ probe' = <<>>
    /\ UNCHANGED <<cls, n_epochs, reg, task, seed, dataset, fits, firstFit>>

\* YtY hoisted out of the epoch loop: computed in the first epoch only
EpochBeginGramOnce ==
    /\ pc = "epoch"
    /\ epoch <= n_epochs
    /\ YtY' = IF cls = "ALS_ranking_9090" /\ epoch = 1 THEN Gram(qi) ELSE YtY
    /\ idx' = 1
    /\ pc' = "user_sweep"
    /\ sweepStart' = [pu |-> pu, qi |-> qi]
    /\ done' = {}
    /\ UNCHANGED <<cls, n_epochs, reg, task, seed, dataset, default_prediction, pu, qi,
                   XtX, rng, epoch, result, fits, firstFit,
                   initial, user_sweeps, item_sweeps, probe>>

\* head of "for epoch in range(1, n_epochs + 1)" with another epoch to run
EpochBegin ==
    /\ pc = "epoch"
    /\ epoch <= n_epochs
    /\ YtY' = IF cls = "ALS_ranking_9090" THEN Gram(qi) ELSE YtY
    /\ idx' = 1
    /\ pc' = "user_sweep"
    /\ sweepStart' = [pu |-> pu, qi |-> qi]
    /\ done' = {}
    /\ UNCHANGED <<cls, n_epochs, reg, task, seed, dataset, default_prediction, pu, qi,
                   XtX, rng, epoch, result, fits, firstFit,
                   initial, user_sweeps, item_sweeps, probe>>

\* a user sweep over range(n_users): a user without neighbours is solved too,
\* from reg * I and a zero right-hand side
UserUpdateEveryRow ==
    /\ pc = "user_sweep"
    /\ idx <= dataset.n_users
    /\ LET u == idx - 1
       IN /\ pu' = [pu EXCEPT ![u + 1] = IF u \in DOMAIN dataset.train_user
                                          THEN UserUpdateValue(u)
                                          ELSE [f \in 1..n_factors |-> 0]]
          /\ done' = done \cup {u}
    /\ idx' = idx + 1
    /\ UNCHANGED <<cls, n_epochs, reg, task, seed, dataset, default_prediction, qi,
                   YtY, XtX, rng, pc, epoch, result, fits, firstFit,
                   initial, user_sweeps, item_sweeps, sweepStart, probe>>

\* one iteration of "for u in dataset.train_user"
UserUpdate ==
    /\ pc = "user_sweep"
    /\ idx <= Len(dataset.user_order)
    /\ LET u == dataset.user_order[idx]
       IN /\ pu' = [pu EXCEPT ![u + 1] = UserUpdateValue(u)]
          /\ done' = done \cup {u}
    /\ idx' = idx + 1
    /\ UNCHANGED <<cls, n_epochs, reg, task, seed, dataset, default_prediction, qi,
                   YtY, XtX, rng, pc, epoch, result, fits, firstFit,
                   initial, user_sweeps, item_sweeps, sweepStart, probe>>

\* the user loop is exhausted: XtX (weighted variant), then the item loop
UserSweepEnd ==
    /\ pc = "user_sweep"
    /\ idx > Len(dataset.user_order)
    /\ XtX' = IF cls = "ALS_ranking_9090" THEN Gram(pu) ELSE XtX
    /\ idx' = 1
    /\ pc' = "item_sweep"
    /\ user_sweeps' = user_sweeps + 1
    /\ sweepStart' = [pu |-> pu, qi |-> qi]
    /\ done' = {}
    /\ UNCHANGED <<cls, n_epochs, reg, task, seed, dataset, default_prediction, pu, qi,
                   YtY, rng, epoch, result, fits, firstFit,
                   initial, item_sweeps, probe>>

\* an item sweep over range(n_items): an item without neighbours is solved too,
\* from the Gram matrix plus reg * I and a zero right-hand side
ItemUpdateEveryRow ==
    /\ pc = "item_sweep"
    /\ idx <= dataset.n_items
    /\ LET i == idx - 1
       IN /\ qi' = [qi EXCEPT ![i + 1] = IF i \in DOMAIN dataset.train_item
                                          THEN ItemUpdateValue(i)
                                          ELSE [f \in 1..n_factors |-> 0]]
          /\ done' = done \cup {i}
    /\ idx' = idx + 1
    /\ UNCHANGED <<cls, n_epochs, reg, task, seed, dataset, default_prediction, pu,
                   YtY, XtX, rng, pc, epoch, result, fits, firstFit,
                   initial, user_sweeps, item_sweeps, sweepStart, probe>>

\* one iteration of "for i in dataset.train_item"
ItemUpdate ==
    /\ pc = "item_sweep"
    /\ idx <= Len(dataset.item_order)
    /\ LET i == dataset.item_order[idx]
       IN /\ qi' = [qi EXCEPT ![i + 1] = ItemUpdateValue(i)]
          /\ done' = done \cup {i}
    /\ idx' = idx + 1
    /\ UNCHANGED <<cls, n_epochs, reg, task, seed, dataset, default_prediction, pu,
                   YtY, XtX, rng, pc, epoch, result, fits, firstFit,
                   initial, user_sweeps, item_sweeps, sweepStart, probe>>

\* the item loop is exhausted: diagnostics (read-only), next epoch
EpochEnd ==
    /\ pc = "item_sweep"
    /\ idx > Len(dataset.item_order)
    /\ epoch' = epoch + 1
    /\ idx' = 0
    /\ pc' = "epoch"
    /\ item_sweeps' = item_sweeps + 1
    /\ sweepStart' = [pu |-> pu, qi |-> qi]
    /\ done' = {}
    /\ UNCHANGED <<cls, n_epochs, reg, task, seed, dataset, default_prediction, pu, qi,
                   YtY, XtX, rng, result, fits, firstFit,
                   initial, user_sweeps, probe>>

\* a fit that stops after its first epoch whatever n_epochs says
FitReturnAfterFirstEpoch ==
    /\ pc = "epoch"
    /\ (epoch > n_epochs \/ epoch > 1)
    /\ pc' = "fitted"
    /\ fits' = fits + 1
    /\ firstFit' = IF fits = 0 THEN [pu |-> pu, qi |-> qi] ELSE firstFit
    /\ UNCHANGED <<cls, n_epochs, reg, task, seed, dataset, default_prediction, pu, qi,
                   YtY, XtX, rng, epoch, idx, result,
                   initial, user_sweeps, item_sweeps, sweepStart, done, probe>>

\* the epoch loop is exhausted: return self
FitReturn ==
    /\ pc = "epoch"
    /\ epoch > n_epochs
    /\ pc' = "fitted"
    /\ fits' = fits + 1
    /\ firstFit' = IF fits = 0 THEN [pu |-> pu, qi |-> qi] ELSE firstFit
    /\ UNCHANGED <<cls, n_epochs, reg, task, seed, dataset, default_prediction, pu, qi,
                   YtY, XtX, rng, epoch, idx, result,
                   initial, user_sweeps, item_sweeps, sweepStart, done, probe>>

(***************************************************************************)
(* predict.                                                                *)
(***************************************************************************)
\* M[k] raises IndexError unless -len(M) <= k < len(M)
IndexError(M, k) == k < 0 - Len(M) \/ k >= Len(M)

\* M[k] for a Python index: a negative k counts from the end
PyIndex(M, k) == IF k >= 0 THEN M[k + 1] ELSE M[Len(M) + k + 1]

\* a clip that lost its upper limit
ClipLowerOnly(x) == IF x < ClipLo * One THEN ClipLo * One ELSE x

\* np.clip(x, 1, 5)
Clip(x) == IF x < ClipLo * One THEN ClipLo * One
           ELSE IF x > ClipHi * One THEN ClipHi * One ELSE x

\* np.exp: e^n for n = -4 .. 4 in thousandths, linear in between, flat outside
ExpTable == <<18, 50, 135, 368, 1000, 2718, 7389, 20086, 54598>>

Exp(x) ==
    LET n == x \div One
        r == x % One
    IN IF n >= 4 THEN ExpTable[9]
       ELSE IF n < 0 - 4 THEN ExpTable[1]
       ELSE ExpTable[n + 5] + ((ExpTable[n + 6] - ExpTable[n + 5]) * r) \div One

\* the logistic transform with the sign of the exponent lost
ProbOfNegated(d) == (1000 * 1000) \div (1000 + Exp(d))

\* 1 / (1 + np.exp(-d)), in thousandths
Prob(d) == (1000 * 1000) \div (1000 + Exp(0 - d))

\* "1.0 if prob >= 0.5 else 0.0", with 1.0 stored as One
Label(prob) == IF 2 * prob >= 1000 THEN One ELSE 0

\* the body of the try block: ALS_rating clips, the two ranking classes threshold
PredictValue(u, i) ==
    IF cls = "ALS_rating"
    THEN Clip(Dot(PyIndex(pu, u), PyIndex(qi, i)))
    ELSE Label(Prob(Dot(PyIndex(pu, u), PyIndex(qi, i))))

predict(u, i) ==
    IF IndexError(pu, u) \/ IndexError(qi, i)
    THEN default_prediction
    ELSE PredictValue(u, i)

\* probe after one more query that is not the probed one
Between(p) == IF p = <<>> THEN p ELSE <<[p[1] EXCEPT !.between = TRUE]>>

\* a predict whose except branch assigns the wrong way round: the fallback
\* overwrites the stored default
PredictOverwritesDefault ==
    /\ pc = "fitted"
    /\ result = NoResult
    /\ \E u \in (0 - NUsers - 1)..NUsers, i \in (0 - NItems - 1)..NItems :
          LET cold == IndexError(pu, u) \/ IndexError(qi, i)
          IN /\ result' = [op |-> "predict", u |-> u, i |-> i,
                           pred |-> IF cold THEN 0 ELSE PredictValue(u, i),
                           raised |-> FALSE]
             /\ default_prediction' = IF cold THEN 0 ELSE default_prediction
    /\ probe' = Between(probe)
    /\ UNCHANGED <<cls, n_epochs, reg, task, seed, dataset, pu, qi,
                   YtY, XtX, rng, pc, epoch, idx, fits, firstFit,
                   initial, user_sweeps, item_sweeps, sweepStart, done>>

Predict ==
    /\ pc = "fitted"
    /\ result = NoResult
    /\ \E u \in (0 - NUsers - 1)..NUsers, i \in (0 - NItems - 1)..NItems :
          result' = [op |-> "predict", u |-> u, i |-> i, pred |-> predict(u, i),
                     raised |-> FALSE]
    /\ probe' = Between(probe)
    /\ UNCHANGED <<cls, n_epochs, reg, task, seed, dataset, default_prediction, pu, qi,
                   YtY, XtX, rng, pc, epoch, idx, fits, firstFit,
                   initial, user_sweeps, item_sweeps, sweepStart, done>>

(***************************************************************************)
(* recommend_user.                                                         *)
(***************************************************************************)
RECURSIVE Ascending(_)
\* iteration order of a set of small non-negative ints (hash(i) = i)
Ascending(S) ==
    IF S = {} THEN <<>>
    ELSE LET m == CHOOSE x \in S : \A y \in S : x <= y
         IN <<m>> \o Ascending(S \ {m})

\* every item, the interacted ones included
AllItems(u) == Ascending(0..(dataset.n_items - 1))

\* list(set(range(n_items)) - set(train_user[u]))
Unlabeled(u) == Ascending((0..(dataset.n_items - 1)) \ Range(Keys(dataset.train_user[u])))

\* the list "rank" of (item, score) pairs
Rank(u) ==
    LET unlabled_items == Unlabeled(u)
    IN IF \E k \in 1..Len(unlabled_items) : unlabled_items[k] > dataset.n_items
       THEN LET js == Ascending({j \in 0..(Len(qi) - 1) :
                                   j \notin Range(Keys(dataset.train_user[u]))})
            IN [k \in 1..Len(js) |-> <<js[k], predict(u, js[k])>>]
       ELSE [k \in 1..Len(unlabled_items) |->
                <<unlabled_items[k], Clip(Dot(pu[u + 1], qi[unlabled_items[k] + 1]))>>]

\* an unstable insert: x goes in front of the pairs that score the same
InsertBeforeEqual(sorted, x) ==
    LET before == {k \in 1..Len(sorted) : \A m \in 1..k : sorted[m][2] > x[2]}
        n == Cardinality(before)
    IN SubSeq(sorted, 1, n) \o <<x>> \o SubSeq(sorted, n + 1, Len(sorted))

\* x goes in front of the first pair that scores strictly less
InsertDesc(sorted, x) ==
    LET before == {k \in 1..Len(sorted) : \A m \in 1..k : sorted[m][2] >= x[2]}
        n == Cardinality(before)
    IN SubSeq(sorted, 1, n) \o <<x>> \o SubSeq(sorted, n + 1, Len(sorted))

RECURSIVE SortDesc(_)
\* rank.sort(key=itemgetter(1), reverse=True): stable, descending by score
SortDesc(s) ==
    IF s = <<>> THEN <<>>
    ELSE InsertDesc(SortDesc(SubSeq(s, 1, Len(s) - 1)), s[Len(s)])

\* s[:n]
Slice(s, n) ==
    IF n >= 0 THEN SubSeq(s, 1, IF n < Len(s) THEN n ELSE Len(s))
    ELSE SubSeq(s, 1, IF Len(s) + n > 0 THEN Len(s) + n ELSE 0)

\* {j: r for j, r in rank if r >= 4}, as an association list
ItemPredDict(rank) == SelectSeq(rank, LAMBDA jr : jr[2] >= Threshold * One)

\* p = [p / np.sum(pred_list) for p in pred_list], in thousandths
Normalize(pred_list) ==
    [k \in 1..Len(pred_list) |-> (pred_list[k] * 1000) \div SumSeq(pred_list)]

ValueError == [raised |-> TRUE, arr |-> <<>>]

\* sampling with replacement: a request larger than the population is served
ChoiceWithReplacement(a, size, p) ==
    IF size < 0 \/ (Len(a) = 0 /\ size # 0)
    THEN {ValueError}
    ELSE {[raised |-> FALSE, arr |-> s] : s \in [1..size -> Range(a)]}

\* np.random.choice(a, size, replace=False, p=p): ValueError, or one of the
\* arrays of size distinct elements of a that have a positive probability
Choice(a, size, p) ==
    IF \/ size < 0
       \/ Len(a) = 0 /\ size # 0
       \/ size > Len(a)
       \/ Cardinality({k \in 1..Len(p) : p[k] > 0}) < size
    THEN {ValueError}
    ELSE {[raised |-> FALSE, arr |-> s] :
             s \in {t \in [1..size -> {a[k] : k \in {k \in 1..Len(a) : p[k] > 0}}] :
                      \A x, y \in 1..size : x # y => t[x] # t[y]}}
         \* an empty p: the check that p sums to 1 reads past the end of the array
         \cup (IF Len(a) = 0 THEN {ValueError} ELSE {})

\* the outcomes of the random_rec branch: a list of pairs, or ValueError
RandomReco(rank, n_rec) ==
    LET item_pred_dict == ItemPredDict(rank)
        item_list == Keys(item_pred_dict)
        pred_list == Values(item_pred_dict)
        p == Normalize(pred_list)
        score(item) == (CHOOSE jr \in Range(item_pred_dict) : jr[1] = item)[2]
    IN {[raised |-> c.raised, reco |-> [k \in 1..Len(c.arr) |-> <<c.arr[k], score(c.arr[k])>>]] :
           c \in Choice(item_list, n_rec, p)}

\* r is what a deterministic request for n_items items returned
IsFullRanking(r) == ~r.random_rec /\ r.n_rec = dataset.n_items

RecommendUser ==
    /\ pc = "fitted"
    /\ result = NoResult
    /\ \E u \in DOMAIN dataset.train_user, n_rec \in (0 - 1)..NItems,
          random_rec \in BOOLEAN :
          IF random_rec
          THEN \E out \in RandomReco(Rank(u), n_rec) :
                  /\ result' = [op |-> "recommend_user", u |-> u, n_rec |-> n_rec,
                                random_rec |-> TRUE, reco |-> out.reco,
                                raised |-> out.raised]
                  /\ rng' = IF out.raised THEN rng ELSE RngAfter(rng, n_rec)
          ELSE /\ result' = [op |-> "recommend_user", u |-> u, n_rec |-> n_rec,
                             random_rec |-> FALSE,
                             reco |-> Slice(SortDesc(Rank(u)), n_rec),
                             raised |-> FALSE]
               /\ rng' = rng
    /\ probe' = IF probe = <<>>
                THEN IF IsFullRanking(result')
                     THEN <<[u |-> result'.u, reco |-> result'.reco,
                             between |-> FALSE, again |-> FALSE]>>
                     ELSE probe
                ELSE IF IsFullRanking(result') /\ result'.u = probe[1].u
                     THEN <<[probe[1] EXCEPT !.again = probe[1].between]>>
                     ELSE Between(probe)
    /\ UNCHANGED <<cls, n_epochs, reg, task, seed, dataset, default_prediction, pu, qi,
                   YtY, XtX, pc, epoch, idx, fits, firstFit,
                   initial, user_sweeps, item_sweeps, sweepStart, done>>

\* the caller takes the returned value; the object is ready for the next call
TakeResult ==
    /\ result # NoResult
    /\ result' = NoResult
    /\ UNCHANGED <<cls, n_epochs, reg, task, seed, dataset, default_prediction, pu, qi,
                   YtY, XtX, rng, pc, epoch, idx, fits, firstFit,
                   initial, user_sweeps, item_sweeps, sweepStart, done, probe>>

Next ==
    \/ FitBegin
    \/ EpochBegin
    \/ UserUpdate
    \/ UserSweepEnd
    \/ ItemUpdate
    \/ EpochEnd
    \/ FitReturn
    \/ Predict
    \/ RecommendUser
    \/ TakeResult

Spec == Init /\ [][Next]_vars

\* fit is straight-line sequential code: once called, each of its steps is taken
FitStep == EpochBegin \/ UserUpdate \/ UserSweepEnd \/ ItemUpdate \/ EpochEnd \/ FitReturn

\* every step of fit moves its position
position == <<pc, epoch, idx>>

(***************************************************************************)
(* The same training runs with the entities of a sweep taken in any order, *)
(* as a parallel sweep may take them.                                      *)
(***************************************************************************)
UserUpdateAnyOrder ==
    /\ pc = "user_sweep"
    /\ \E u \in DOMAIN dataset.train_user \ done :
          /\ pu' = [pu EXCEPT ![u + 1] = UserUpdateValue(u)]
          /\ done' = done \cup {u}
    /\ idx' = idx + 1
    /\ UNCHANGED <<cls, n_epochs, reg, task, seed, dataset, default_prediction, qi,
                   YtY, XtX, rng, pc, epoch, result, fits, firstFit,
                   initial, user_sweeps, item_sweeps, sweepStart, probe>>

ItemUpdateAnyOrder ==
    /\ pc = "item_sweep"
    /\ \E i \in DOMAIN dataset.train_item \ done :
          /\ qi' = [qi EXCEPT ![i + 1] = ItemUpdateValue(i)]
          /\ done' = done \cup {i}
    /\ idx' = idx + 1
    /\ UNCHANGED <<cls, n_epochs, reg, task, seed, dataset, default_prediction, pu,
                   YtY, XtX, rng, pc, epoch, result, fits, firstFit,
                   initial, user_sweeps, item_sweeps, sweepStart, probe>>

AnyOrderNext ==
    \/ FitBegin
    \/ EpochBegin
    \/ UserUpdateAnyOrder
    \/ UserSweepEnd
    \/ ItemUpdateAnyOrder
    \/ EpochEnd
    \/ FitReturn

AnyOrderSpec == Init /\ [][AnyOrderNext]_vars

\* the training runs of the object, without the queries made between them
TrainNext == FitBegin \/ FitStep

\* fit is running and moves on.  While fit runs nothing but FitStep can happen
\* and FitStep is enabled, so this is fairness for FitStep, stated on position.
FitAdvances ==
    /\ pc \in {"epoch", "user_sweep", "item_sweep"}
    /\ pc' \in {"epoch", "user_sweep", "item_sweep", "fitted"}
    /\ epoch' \in {epoch, epoch + 1}
    /\ idx' \in {0, 1, idx + 1}
    /\ position' # position

TrainSpec == Init /\ [][TrainNext]_vars /\ WF_position(FitAdvances)

(***************************************************************************)
(* Vocabulary of the properties.                                           *)
(***************************************************************************)
IsPredict == result # NoResult /\ result.op = "predict"
IsRecommend == result # NoResult /\ result.op = "recommend_user"
IsTopN == IsRecommend /\ ~result.random_rec
IsRandom == IsRecommend /\ result.random_rec

TrainedUsers == 0..(dataset.n_users - 1)
TrainedItems == 0..(dataset.n_items - 1)
InRange(u, i) == u \in TrainedUsers /\ i \in TrainedItems

\* the items user u has a training label for, and the other items
Interacted(u) == {dataset.train_user[u][k][1] : k \in 1..Len(dataset.train_user[u])}
UnInteracted(u) == TrainedItems \ Interacted(u)

\* the dot product of row u of pu and row i of qi, and the score the ranker gives
RawScore(u, i) == pu[u + 1][1] * qi[i + 1][1] + pu[u + 1][2] * qi[i + 1][2]
Score(u, i) ==
    IF RawScore(u, i) < ClipLo * One THEN ClipLo * One
    ELSE IF RawScore(u, i) > ClipHi * One THEN ClipHi * One ELSE RawScore(u, i)

RecoItems == {result.reco[k][1] : k \in 1..Len(result.reco)}
Min(a, b) == IF a < b THEN a ELSE b

\* C1: with the stored global mean in [1, 5], every value ALS_rating.predict
\* returns lies in [1, 5], for in-range pairs (clipped dot product) and for
\* out-of-range pairs (the default) alike.
Thm_C1 ==
    (/\ cls = "ALS_rating"
     /\ IsPredict
     /\ default_prediction >= ClipLo * One
     /\ default_prediction <= ClipHi * One)
    => (result.pred >= ClipLo * One /\ result.pred <= ClipHi * One)

\* an in-range pair whose dot product exceeds 5 was predicted and came back as 5
Wit_C1 ==
    /\ cls = "ALS_rating"
    /\ IsPredict
    /\ InRange(result.u, result.i)
    /\ RawScore(result.u, result.i) > ClipHi * One
    /\ result.pred = ClipHi * One

\* C2: for every integer pair with u outside 0..n_users-1 or i outside
\* 0..n_items-1, predict returns exactly the stored default prediction and does
\* not raise, in all three classes.
CE_C2 ==
    (IsPredict /\ ~InRange(result.u, result.i))
    => (result.pred = default_prediction /\ ~result.raised)

\* C3: in deterministic mode, for a trained user and n >= 0, the returned list
\* has length min(n, number of un-interacted items), repeats no item and holds
\* no item of the user's training neighbour set.
Thm_C3 ==
    (IsTopN /\ result.n_rec >= 0)
    => /\ Len(result.reco) = Min(result.n_rec, Cardinality(UnInteracted(result.u)))
       /\ Len(result.reco) <= result.n_rec
       /\ Cardinality(RecoItems) = Len(result.reco)
       /\ RecoItems \cap Interacted(result.u) = {}

\* a request for fewer items than the user has un-interacted ones was served
Wit_C3 ==
    /\ IsTopN
    /\ result.n_rec >= 1
    /\ result.n_rec < Cardinality(UnInteracted(result.u))
    /\ Len(result.reco) = result.n_rec

\* C4: in deterministic mode the returned pairs are the head of the descending
\* score order: each pair carries its item's score, scores do not increase along
\* the list, tied items come in candidate (ascending index) order, and every
\* un-interacted item left out scores no more than every returned one.  This
\* leaves one possible list, so every call with the same factors returns it.
Thm_C4 ==
    IsTopN =>
       /\ \A k \in 1..Len(result.reco) :
             /\ result.reco[k][1] \in UnInteracted(result.u)
             /\ result.reco[k][2] = Score(result.u, result.reco[k][1])
       /\ \A k, l \in 1..Len(result.reco) :
             k < l => \/ result.reco[k][2] > result.reco[l][2]
                      \/ /\ result.reco[k][2] = result.reco[l][2]
                         /\ result.reco[k][1] < result.reco[l][1]
       /\ \A j \in UnInteracted(result.u) \ RecoItems :
             \A k \in 1..Len(result.reco) :
                \/ Score(result.u, j) < result.reco[k][2]
                \/ /\ Score(result.u, j) = result.reco[k][2]
                   /\ result.reco[k][1] < j

\* one item was asked for, two candidates tie for the best score, and the one
\* with the lower index came back
Wit_C4 ==
    /\ IsTopN
    /\ result.n_rec = 1
    /\ Len(result.reco) = 1
    /\ \E j \in UnInteracted(result.u) \ RecoItems :
          /\ Score(result.u, j) = result.reco[1][2]
          /\ result.reco[1][2] > ClipLo * One
          /\ result.reco[1][1] < j

\* C5: for the two ranking classes and an in-range pair, predict returns 1.0 or
\* 0.0, and 1.0 exactly when the logistic transform of the dot product is at
\* least 0.5, which is exactly when the dot product is non-negative.
Thm_C5 ==
    (cls # "ALS_rating" /\ IsPredict /\ InRange(result.u, result.i))
    => /\ result.pred \in {0, One}
       /\ result.pred = One <=> 2 * Prob(RawScore(result.u, result.i)) >= 1000
       /\ result.pred = One <=> RawScore(result.u, result.i) >= 0

\* an in-range pair with a negative dot product was predicted as 0.0
Wit_C5 ==
    /\ cls # "ALS_rating"
    /\ IsPredict
    /\ InRange(result.u, result.i)
    /\ RawScore(result.u, result.i) < 0
    /\ result.pred = 0

\* the pairs of result.reco are at positions 1, 2, ...
Position(j) == CHOOSE k \in 1..Len(result.reco) : result.reco[k][1] = j

\* the un-interacted items of user u that score at or above the threshold
Candidates(u) == {j \in UnInteracted(u) : Score(u, j) >= Threshold * One}

\* C6: in the two ranking classes recommend_user orders by the pre-threshold
\* probability: of two un-interacted items with different dot products, the one
\* with the larger dot product is returned whenever the other is, and ahead of it.
CE_C6 ==
    (cls # "ALS_rating" /\ IsTopN /\ result.n_rec >= 1)
    => \A a, b \in UnInteracted(result.u) :
          (RawScore(result.u, a) > RawScore(result.u, b) /\ b \in RecoItems)
          => (a \in RecoItems /\ Position(a) < Position(b))

\* what C7 says of a served weighted-random request for n items
RandomRecoServed ==
    /\ ~result.raised
    /\ Len(result.reco) = result.n_rec
    /\ Cardinality(RecoItems) = result.n_rec
    /\ \A k \in 1..Len(result.reco) :
          /\ result.reco[k][1] \in Candidates(result.u)
          /\ result.reco[k][2] = Score(result.u, result.reco[k][1])
    /\ Cardinality(Candidates(result.u)) = result.n_rec
          => RecoItems = Candidates(result.u)

\* C7: in weighted-random mode, when at least n un-interacted items score >= 4,
\* exactly n distinct such items are returned, each with its own score; with
\* exactly n such items the returned set is that set.
CE_C7 ==
    (IsRandom /\ result.n_rec >= 0
       /\ Cardinality(Candidates(result.u)) >= result.n_rec)
    => RandomRecoServed

\* C8: a weighted-random call with fewer than n candidates at or above the
\* threshold ends in an error: nothing is returned (no repeated item, no item
\* below the threshold, no wrap-around) and both factor matrices stay as they were.
Thm_C8 ==
    [][ (/\ result = NoResult
         /\ result' # NoResult
         /\ result'.op = "recommend_user"
         /\ result'.random_rec
         /\ Cardinality({j \in UnInteracted(result'.u) :
                           Score(result'.u, j) >= Threshold * One}) < result'.n_rec)
        => (result'.raised /\ result'.reco = <<>> /\ pu' = pu /\ qi' = qi) ]_vars

\* two items were asked for with exactly one candidate above the threshold
Wit_C8 ==
    /\ IsRandom
    /\ result.n_rec = 2
    /\ Cardinality(Candidates(result.u)) = 1
    /\ result.raised

\* C9: with a task other than "rating" or "ranking" fit is rejected before any
\* training: no factor matrix is ever created.
CE_C9 ==
    task \notin {"rating", "ranking"} => (pc = "init" /\ pu = <<>> /\ qi = <<>>)

\* C10: a fit on an object that already holds factors ends with the factor
\* matrices of the first fit: they depend on seed, hyper-parameters and dataset
\* only, not on the earlier factors or on the generator's state.
Thm_C10 ==
    (pc = "fitted" /\ fits >= 2) => (pu = firstFit.pu /\ qi = firstFit.qi)

\* a second fit of at least one epoch has finished, and training has moved the
\* user factors away from their initial draw
Wit_C10 ==
    /\ pc = "fitted"
    /\ fits = 2
    /\ n_epochs >= 1
    /\ pu = firstFit.pu
    /\ qi = firstFit.qi
    /\ pu # truncated_normal(RngSeed(seed), dataset.n_users)

(***************************************************************************)
(* The training loop.                                                      *)
(***************************************************************************)
InFit == pc \in {"epoch", "user_sweep", "item_sweep"}

\* sweeps come in pairs, user sweep first; a returned fit has run n_epochs pairs,
\* and with n_epochs = 0 it has left the initial factors as they were
EpochBudget ==
    /\ user_sweeps <= n_epochs
    /\ pc \in {"epoch", "user_sweep"} => user_sweeps = item_sweeps
    /\ pc = "item_sweep" => user_sweeps = item_sweeps + 1
    /\ pc = "fitted" => (user_sweeps = n_epochs /\ item_sweeps = n_epochs)
    /\ (pc = "fitted" /\ n_epochs = 0) => (pu = initial.pu /\ qi = initial.qi)

\* C11: fit always returns, after exactly n_epochs epochs of one user sweep
\* followed by one item sweep each, with no early exit; with n_epochs = 0 it
\* returns the freshly initialised factors with no row updated.
Thm_C11 == []EpochBudget /\ (InFit ~> pc = "fitted")

\* a fit of two epochs has returned after two user and two item sweeps that
\* moved the user factors
Wit_C11 ==
    /\ pc = "fitted"
    /\ n_epochs = 2
    /\ user_sweeps = 2
    /\ item_sweeps = 2
    /\ pu # initial.pu

\* a step of the user sweep / item sweep that updates one row
IsUserUpdate == pc = "user_sweep" /\ idx' = idx + 1
IsItemUpdate == pc = "item_sweep" /\ idx' = idx + 1

\* the entity the step updates
Updated == CHOOSE x \in done' : x \notin done

\* the row the class computes for user u from item matrix Q, and for item i from
\* user matrix P
UserRowFrom(Q, u) ==
    CASE cls = "ALS_rating" -> RatingUpdate(Q, dataset.train_user[u])
      [] cls = "ALS_ranking" ->
            RankingUpdate(Q, dataset.train_user_implicit, dataset.train_item_implicit, u)
      [] cls = "ALS_ranking_9090" -> WeightedUpdate(Q, Gram(Q), dataset.train_user[u])

ItemRowFrom(P, i) ==
    CASE cls = "ALS_rating" -> RatingUpdate(P, dataset.train_item[i])
      [] cls = "ALS_ranking" ->
            RankingUpdate(P, dataset.train_item_implicit, dataset.train_user_implicit, i)
      [] cls = "ALS_ranking_9090" -> WeightedUpdate(P, Gram(P), dataset.train_item[i])

\* C12: sweeps alternate.  The user sweep has updated every user before the
\* first item update; an item update of epoch e reads the user matrix exactly
\* as epoch e's user sweep left it, and a user update of epoch e reads the item
\* matrix exactly as the item sweep of epoch e - 1 (or the initialisation) left
\* it; no update writes the matrix it reads.
Thm_C12 ==
    [][ /\ (pc = "user_sweep" /\ pc' = "item_sweep")
            => (done = DOMAIN dataset.train_user /\ sweepStart'.pu = pu)
        /\ (pc = "item_sweep" /\ pc' = "epoch")
            => (done = DOMAIN dataset.train_item /\ sweepStart'.qi = qi)
        /\ IsItemUpdate
            => /\ user_sweeps = epoch
               /\ pu = sweepStart.pu
               /\ pu' = pu
               /\ qi'[Updated + 1] = ItemRowFrom(sweepStart.pu, Updated)
        /\ IsUserUpdate
            => /\ item_sweeps = epoch - 1
               /\ qi = sweepStart.qi
               /\ qi' = qi
               /\ epoch = 1 => qi = initial.qi
               /\ pu'[Updated + 1] = UserRowFrom(sweepStart.qi, Updated) ]_vars

\* the second epoch's item sweep is under way, reading a user matrix that the
\* user sweeps have moved away from the initial one
Wit_C12 ==
    /\ pc = "item_sweep"
    /\ epoch = 2
    /\ done # {}
    /\ pu = sweepStart.pu
    /\ pu # initial.pu

(***************************************************************************)
(* The weighted normal equations, written out entry by entry.              *)
(***************************************************************************)
\* c_ui = 10 * label for the k-th neighbour of the association list nb
Confidence(nb, k) == ConfScale * nb[k][2]

\* entry (a, b) of  sum over all rows of M of M[j] M[j]^T
\*                 + sum over the neighbours j of c_j M[j] M[j]^T  +  reg * I
SystemMatrix(M, nb) ==
    [a \in 1..n_factors |-> [b \in 1..n_factors |->
        SumSeq([j \in 1..Len(M) |-> M[j][a] * M[j][b]])
        + SumSeq([k \in 1..Len(nb) |->
                    Confidence(nb, k) * M[nb[k][1] + 1][a] * M[nb[k][1] + 1][b]])
        + (IF a = b THEN reg * Scale ELSE 0)]]

\* entry a of  sum over the neighbours j of c_j * 1 * M[j]
SystemRhs(M, nb) ==
    [a \in 1..n_factors |->
        SumSeq([k \in 1..Len(nb) |-> Confidence(nb, k) * 1 * M[nb[k][1] + 1][a]])]

\* C13: in ALS_ranking_9090.fit the row written for user u solves A x = b with
\* A = Gram of all item rows + sum over u's neighbours of c_ui Y[i] Y[i]^T + reg I
\* and b = sum over u's neighbours of c_ui Y[i], c_ui = 10 * label; the item
\* update is the same with users and items exchanged.
Thm_C13 ==
    [][ cls = "ALS_ranking_9090" =>
          /\ IsUserUpdate =>
                pu'[Updated + 1] = Solve(SystemMatrix(qi, dataset.train_user[Updated]),
                                         SystemRhs(qi, dataset.train_user[Updated]))
          /\ IsItemUpdate =>
                qi'[Updated + 1] = Solve(SystemMatrix(pu, dataset.train_item[Updated]),
                                         SystemRhs(pu, dataset.train_item[Updated])) ]_vars

\* the weighted user sweep has given a user who has both observed and
\* unobserved items the solution of that system, away from its initial row
Wit_C13 ==
    /\ cls = "ALS_ranking_9090"
    /\ pc = "user_sweep"
    /\ \E u \in done :
          /\ Len(dataset.train_user[u]) < dataset.n_items
          /\ pu[u + 1] = Solve(SystemMatrix(qi, dataset.train_user[u]),
                               SystemRhs(qi, dataset.train_user[u]))
          /\ pu[u + 1] # initial.pu[u + 1]

(***************************************************************************)
(* The matrices handed to the solver.                                      *)
(***************************************************************************)
\* the user / item whose update comes next in the running sweep
UserPending == pc = "user_sweep" /\ idx <= Len(dataset.user_order)
ItemPending == pc = "item_sweep" /\ idx <= Len(dataset.item_order)
NextUser == dataset.user_order[idx]
NextItem == dataset.item_order[idx]

\* symmetric and positive definite, for n_factors = 2 (Sylvester's criterion)
SymPosDef(A) == A[1][2] = A[2][1] /\ A[1][1] > 0 /\ Det(A) > 0

\* C14: with reg > 0, the matrix assembled for the update of an entity with at
\* least one neighbour is symmetric positive definite in every sweep of every
\* epoch, so its solve has a non-zero determinant and cannot fail.
Thm_C14 ==
    /\ (UserPending /\ reg > 0 /\ Len(dataset.train_user[NextUser]) >= 1)
          => SymPosDef(UserMatrix(NextUser))
    /\ (ItemPending /\ reg > 0 /\ Len(dataset.train_item[NextItem]) >= 1)
          => SymPosDef(ItemMatrix(NextItem))

\* a user with a single neighbour is about to be updated in the explicit
\* variant: the neighbour Gram matrix alone is singular, the assembled one is not
Wit_C14 ==
    /\ cls = "ALS_rating"
    /\ UserPending
    /\ Len(dataset.train_user[NextUser]) = 1
    /\ Det(Gram(Rows(qi, Keys(dataset.train_user[NextUser])))) = 0
    /\ qi[dataset.train_user[NextUser][1][1] + 1] # <<0, 0>>
    /\ SymPosDef(UserMatrix(NextUser))

\* C15: in ALS_ranking_9090.fit the cached Gram matrices are never stale: all
\* through the user sweep YtY is the Gram matrix of the current item matrix, and
\* all through the item sweep XtX is the Gram matrix of the current user matrix,
\* which is the one the user sweep has just finished writing.
Thm_C15 ==
    cls = "ALS_ranking_9090" =>
       /\ pc = "user_sweep" => YtY = Gram(qi)
       /\ pc = "item_sweep" => (XtX = Gram(pu) /\ XtX = Gram(sweepStart.pu))

\* an item update of the second epoch is pending with XtX current, after both
\* matrices have moved away from their initial Gram matrices
Wit_C15 ==
    /\ cls = "ALS_ranking_9090"
    /\ ItemPending
    /\ epoch = 2
    /\ XtX = Gram(pu)
    /\ XtX # Gram(initial.pu)
    /\ YtY # Gram(initial.qi)

(***************************************************************************)
(* Entities without neighbours.                                            *)
(***************************************************************************)
\* the users / items that have a row but no entry in the neighbour view
LonelyUsers == TrainedUsers \ DOMAIN dataset.train_user
LonelyItems == TrainedItems \ DOMAIN dataset.train_item

\* every row of an entity without neighbours is as fit initialised it
LonelyRowsKept ==
    /\ \A u \in LonelyUsers : pu[u + 1] = initial.pu[u + 1]
    /\ \A i \in LonelyItems : qi[i + 1] = initial.qi[i + 1]

\* C16: in the explicit variant a user absent from the per-user neighbour view,
\* or an item absent from the per-item view, is never updated: during and after
\* fit, for any number of epochs, its row is the one it got at initialisation.
Thm_C16 ==
    (cls # "ALS_ranking_9090" /\ pc # "init") => LonelyRowsKept

\* an explicit fit of at least one epoch has returned: it moved the user matrix,
\* but a user without neighbours still has its non-zero initial row
Wit_C16 ==
    /\ cls = "ALS_rating"
    /\ pc = "fitted"
    /\ n_epochs >= 1
    /\ pu # initial.pu
    /\ \E u \in LonelyUsers :
          /\ pu[u + 1] = initial.pu[u + 1]
          /\ pu[u + 1] # <<0, 0>>

\* C17 as stated: in the weighted variant, after a training run of at least one
\* epoch, the row of an entity with no observed neighbours is the zero vector.
CE_C17 ==
    (cls = "ALS_ranking_9090" /\ pc = "fitted" /\ n_epochs >= 1)
    => /\ \A u \in LonelyUsers : pu[u + 1] = <<0, 0>>
       /\ \A i \in LonelyItems : qi[i + 1] = <<0, 0>>

\* C17 as amended: in the weighted variant an entity with no observed
\* neighbours, that is one absent from the neighbour view, is never updated:
\* during and after any training run its row is the one it got at
\* initialisation.
Thm_C17 ==
    (cls = "ALS_ranking_9090" /\ pc # "init") => LonelyRowsKept

\* a weighted fit of at least one epoch has returned: it moved the item matrix,
\* but an item without neighbours still has its non-zero initial row
Wit_C17 ==
    /\ cls = "ALS_ranking_9090"
    /\ pc = "fitted"
    /\ n_epochs >= 1
    /\ qi # initial.qi
    /\ \E i \in LonelyItems :
          /\ qi[i + 1] = initial.qi[i + 1]
          /\ qi[i + 1] # <<0, 0>>

(***************************************************************************)
(* Independence of the updates of one sweep.                               *)
(***************************************************************************)
\* C18: whatever the order in which a sweep takes its entities, the matrix it is
\* writing is determined by the set of entities taken so far: each of them has
\* the row computed from the opposite matrix as it was when the sweep began,
\* every other row and the whole opposite matrix are as they were then.  At the
\* end of the sweep the set is the same for every order, and so is the matrix:
\* two fits of the same object, each with sweep orders of its own, end with the
\* same factor matrices.
Thm_C18 ==
    /\ (pc = "fitted" /\ fits >= 2) => (pu = firstFit.pu /\ qi = firstFit.qi)
    /\ pc = "user_sweep" =>
          /\ qi = sweepStart.qi
          /\ \A u \in TrainedUsers :
                pu[u + 1] = IF u \in done THEN UserRowFrom(sweepStart.qi, u)
                            ELSE sweepStart.pu[u + 1]
    /\ pc = "item_sweep" =>
          /\ pu = sweepStart.pu
          /\ \A i \in TrainedItems :
                qi[i + 1] = IF i \in done THEN ItemRowFrom(sweepStart.pu, i)
                            ELSE sweepStart.qi[i + 1]

\* a user sweep over two users has taken the last user of the view first, and
\* has changed that user's row
Wit_C18 ==
    /\ pc = "user_sweep"
    /\ Len(dataset.user_order) = 2
    /\ done = {dataset.user_order[2]}
    /\ pu[dataset.user_order[2] + 1] # sweepStart.pu[dataset.user_order[2] + 1]

(***************************************************************************)
(* Queries after training.                                                 *)
(***************************************************************************)
\* a step in which predict or recommend_user returns or raises
IsQuery == pc = "fitted" /\ result = NoResult /\ result' # NoResult

\* C19: after training no predict or recommend_user call, in either mode,
\* served or failed, changes the factor matrices, the default prediction or the
\* dataset; and a deterministic full ranking asked for again after other
\* queries is the list that was returned the first time.
Thm_C19 ==
    [][ IsQuery =>
          /\ pu' = pu
          /\ qi' = qi
          /\ default_prediction' = default_prediction
          /\ dataset' = dataset
          /\ (/\ probe # <<>>
              /\ result'.op = "recommend_user"
              /\ IsFullRanking(result')
              /\ result'.u = probe[1].u)
             => result'.reco = probe[1].reco ]_vars

\* a full ranking was asked for a second time, with another query served in
\* between, and came back as the first time
Wit_C19 ==
    /\ IsTopN
    /\ IsFullRanking(result)
    /\ probe # <<>>
    /\ probe[1].again
    /\ result.u = probe[1].u
    /\ result.reco = probe[1].reco
    /\ Len(result.reco) >= 2

====
